---- MODULE Spec2Model ----
(***************************************************************************)
(* Model of scripts/merge_epg.py: main() runs merge_files() once per merge *)
(* group of MERGES.  merge_files() reads the group's input documents in    *)
(* order, merges the channels of the additional documents into the base    *)
(* document by display-name, remaps the programmes and writes the result.  *)
(*                                                                         *)
(* The elements of an input document are drawn when the loop that visits   *)
(* them reaches them; `files' records what has been read of each input.    *)
(***************************************************************************)
EXTENDS Integers, Sequences, FiniteSets, TLC

VARIABLES
    group,           \* main(): index into MERGES of the running merge_files call
    pc,              \* position inside merge_files / main
    files,           \* the inputs of this group as read so far, one entry per input
    base_tree,       \* merge_files: None until the base document is loaded
    base_root,       \* children of the base root (read only once base_tree is set)
    name_map,        \* display-name -> position of the channel element in base_root
    id_map,          \* old id -> new id
    max_id,          \* running id counter
    programmes_map,  \* new id -> list of programme elements
    written          \* groups whose output file has been written

vars == <<group, pc, files, base_tree, base_root, name_map, id_map, max_id,
          programmes_map, written>>

\* Python's None: a missing attribute, a display-name without text, no tree.
None == "None"

-----------------------------------------------------------------------------
(* Bounds of the inputs *)

\* channel elements over all inputs of one group
MaxCh == 3
\* channel and programme elements over all inputs of one group
MaxElems == 4
\* display-name children of one input channel, where the names are varied
MaxNames == 2

\* texts of display-name children: plain, whitespace-only, and without text
RawTexts == {"A", "B", " ", None}
\* values of the id attribute of a channel and the channel attribute of a
\* programme: missing, numeric, non-numeric
IdAttrs == {None, "1", "x"}
\* ids of base channels where the ids are varied, and old ids where they are not
BaseIds == {None, "1", "2", "x"}
OldIds == {None, "1"}

\* display-name children of a channel: at most one, any text
ShortLists == {<<>>} \cup {<<t>> : t \in RawTexts}
\* display-name children of a channel: up to MaxNames, plain texts
NameLists == UNION {[1..n -> {"A", "B"}] : n \in 0..MaxNames}

-----------------------------------------------------------------------------
(* Program constants and library functions *)

\* number of input files of each merge group
MERGES == <<3, 2>>

\* truth value of a str-or-None in a Python condition
Truthy(s) == s # None /\ s # ""

\* str.strip()
Strip(t) == IF t = " " THEN "" ELSE t

Decimal == <<"1", "2", "3", "4", "5", "6", "7", "8", "9">>

\* str(n) for the counter values the model reaches
Str(n) == Decimal[n]

\* int(s) succeeds (no ValueError)
ParsesAsInt(s) == \E n \in DOMAIN Decimal : Decimal[n] = s

\* int(s)
IntOf(s) == CHOOSE n \in DOMAIN Decimal : Decimal[n] = s

Max(a, b) == IF a >= b THEN a ELSE b

\* a key that is not in the dict is given back itself
GetOrSame(d, key) == IF key \in DOMAIN d THEN d[key] ELSE key

\* dict.get(key)
Get(d, key) == IF key \in DOMAIN d THEN d[key] ELSE None

\* dict.get(key, [])
ListOf(pm, key) == IF key \in DOMAIN pm THEN pm[key] ELSE <<>>

\* d[key] = value
Put(d, key, value) ==
    [x \in DOMAIN d \cup {key} |-> IF x = key THEN value ELSE d[x]]

EmptyDict == [x \in {} |-> None]

\* the iteration orders of a set
Orders(S) == {s \in [1..Cardinality(S) -> S] : \A i, j \in DOMAIN s : i # j => s[i] # s[j]}

-----------------------------------------------------------------------------
(* Elements *)

Channel(doc, k, id, dn) ==
    [tag |-> "channel", doc |-> doc, k |-> k, id |-> id, dn |-> dn]

Programme(doc, k, channel) ==
    [tag |-> "programme", doc |-> doc, k |-> k, channel |-> channel]

get_all_names(ch) ==
    {Strip(ch.dn[i]) : i \in {j \in DOMAIN ch.dn : Truthy(ch.dn[j])}}

-----------------------------------------------------------------------------
(* What has been read of the inputs *)

RECURSIVE CountRead(_, _)
CountRead(kind, n) ==
    IF n = 0 THEN 0
    ELSE CountRead(kind, n - 1)
         + Len(files[n][kind])

\* merge_files: index of the input being processed (0 = base), and of the next
idx == Len(files) - 1
next_idx == Len(files)

\* inside the loop over the inputs: the iteration under way ends when its
\* loops find no further element, and the next one starts
InLoop == pc \in {"start", "skipped", "base_channels", "base_programmes",
                  "channels", "programmes"}

\* the bounds leave room for one more channel / programme element
RoomForChannel ==
    /\ CountRead("channel", Len(files)) < MaxCh
    /\ CountRead("channel", Len(files)) + CountRead("programme", Len(files)) < MaxElems

RoomForProgramme ==
    CountRead("channel", Len(files)) + CountRead("programme", Len(files)) < MaxElems

Loaded(i) == i + 1 \in DOMAIN files /\ files[i + 1].parsed

ChannelsRead(i) == IF Loaded(i) THEN files[i + 1].channel ELSE <<>>

ProgrammesRead(i) == IF Loaded(i) THEN files[i + 1].programme ELSE <<>>

\* the channel as it stood in its document, with what became of it: passed
\* over ("skipped"), kept as a base channel ("base"), merged into an existing
\* channel ("duplicate") or added ("new"), and the id it goes by in the output
ReadChannel(ch, fate, new_id) ==
    [files EXCEPT ![idx + 1].channel = Append(@,
        [tag |-> "channel", doc |-> ch.doc, k |-> ch.k, id |-> ch.id, dn |-> ch.dn,
         fate |-> fate, new_id |-> new_id])]

ReadProgramme(p) ==
    [files EXCEPT ![idx + 1].programme = Append(@, p)]

\* an input whose tree parse_tree returned, nothing of it read yet
EmptyDoc == [parsed |-> TRUE, channel |-> <<>>, programme |-> <<>>]

\* an input for which parse_tree returned None
NoDoc == [parsed |-> FALSE, channel |-> <<>>, programme |-> <<>>]

-----------------------------------------------------------------------------
Init ==
    /\ group = 1
    /\ pc = "start"
    /\ files = <<>>
    /\ base_tree = None
    /\ base_root = <<>>
    /\ name_map = EmptyDict
    /\ id_map = EmptyDict
    /\ max_id = 0
    /\ programmes_map = EmptyDict
    /\ written = {}

\* skipping an input also forgets the old ids mapped so far
SkipInputForgetful ==
    /\ InLoop
    /\ next_idx < MERGES[group]
    /\ files' = Append(files, NoDoc)
    /\ pc' = "skipped"
    /\ id_map' = EmptyDict
    /\ UNCHANGED <<group, base_tree, base_root, name_map, max_id,
                   programmes_map, written>>

\* parse_tree returns None: the input is skipped
SkipInput ==
    /\ InLoop
    /\ next_idx < MERGES[group]
    /\ files' = Append(files, NoDoc)
    /\ pc' = "skipped"
    /\ UNCHANGED <<group, base_tree, base_root, name_map, id_map, max_id,
                   programmes_map, written>>

\* parse_tree returns the tree of the first input: it becomes the base
LoadBase ==
    /\ InLoop
    /\ next_idx < MERGES[group]
    /\ next_idx = 0
    /\ files' = Append(files, EmptyDoc)
    /\ base_tree' = "tree"
    /\ base_root' = <<>>
    /\ pc' = "base_channels"
    /\ UNCHANGED <<group, name_map, id_map, max_id, programmes_map, written>>

\* parse_tree returns the tree of a later input
LoadOther ==
    /\ InLoop
    /\ next_idx < MERGES[group]
    /\ next_idx # 0
    /\ files' = Append(files, EmptyDoc)
    /\ pc' = "channels"
    /\ UNCHANGED <<group, base_tree, base_root, name_map, id_map, max_id,
                   programmes_map, written>>

\* a new channel put first instead of appended
AddChannelFirst(root, ch) == <<ch>> \o root

\* base_root.append(ch)
AddChannel(root, ch) == Append(root, ch)

\* for n in names: name_map[n] = ch  (ch at position i of base_root)
IndexNames(nm, names, i) ==
    [n \in DOMAIN nm \cup names |-> IF n \in names THEN i ELSE nm[n]]

\* the counter ignores the ids of the base
TrackNoId(m, cid) == m

\* the counter follows the last numeric id instead of the greatest
TrackLastId(m, cid) == IF ParsesAsInt(cid) THEN IntOf(cid) ELSE m

\* try: max_id = max(max_id, int(cid))  except ValueError: pass
TrackMaxId(m, cid) == IF ParsesAsInt(cid) THEN Max(m, IntOf(cid)) ELSE m

\* base document: one round of the loop over base_root.findall("channel")
BaseChannelOver(ids, lists) ==
    /\ pc = "base_channels"
    /\ RoomForChannel
    /\ \E cid \in ids, dn \in lists :
        LET ch == Channel(idx, Len(files[idx + 1].channel) + 1, cid, dn) IN
        /\ files' = ReadChannel(ch, "base", cid)
        /\ base_root' = Append(base_root, ch)
        /\ IF ~Truthy(cid)
           THEN UNCHANGED <<name_map, max_id, programmes_map>>
           ELSE /\ name_map' = IndexNames(name_map, get_all_names(ch), Len(base_root) + 1)
                /\ max_id' = TrackMaxId(max_id, cid)
                /\ programmes_map' = Put(programmes_map, cid, <<>>)
    /\ UNCHANGED <<group, pc, base_tree, id_map, written>>

\* a base programme is put first in its list instead of last
CollectFirst(pm, ch_id, p) ==
    IF ch_id \in DOMAIN pm THEN [pm EXCEPT ![ch_id] = <<p>> \o @] ELSE pm

\* if ch_id in programmes_map: programmes_map[ch_id].append(p)
Collect(pm, ch_id, p) ==
    IF ch_id \in DOMAIN pm THEN [pm EXCEPT ![ch_id] = Append(@, p)] ELSE pm

\* base document: one round of the loops over base_root.findall("programme");
\* the programme is collected if its channel is known, and removed from the root
BaseProgramme ==
    /\ pc \in {"base_channels", "base_programmes"}
    /\ RoomForProgramme
    /\ \E ch_id \in IdAttrs :
        LET p == Programme(idx, Len(files[idx + 1].programme) + 1, ch_id) IN
        /\ files' = ReadProgramme(p)
        /\ programmes_map' = Collect(programmes_map, ch_id, p)
    /\ pc' = "base_programmes"
    /\ UNCHANGED <<group, base_tree, base_root, name_map, id_map, max_id, written>>

-----------------------------------------------------------------------------
(* Channels of a later input *)

\* for n in ch_names: if n in name_map: target_ch = name_map[n]; break
\* (ord is the order in which the set ch_names is iterated)
Matches(nm, ord) == {i \in DOMAIN ord : ord[i] \in DOMAIN nm}

FirstMatch(nm, ord) ==
    nm[ord[CHOOSE i \in Matches(nm, ord) : \A j \in Matches(nm, ord) : i <= j]]

\* the loop over ch_names stops at the first name the target carries
NewNamesUntilKnown(ord, existing_names) ==
    LET known == {i \in DOMAIN ord : ord[i] \in existing_names} IN
    IF known = {} THEN ord
    ELSE SubSeq(ord, 1, (CHOOSE i \in known : \A j \in known : i <= j) - 1)

\* every name of ch_names is added, carried by the target or not
AllNames(ord, existing_names) == ord

\* the names of ch_names, in iteration order, that the target does not carry
NewNames(ord, existing_names) ==
    SelectSeq(ord, LAMBDA n : n \notin existing_names)

\* the names added to the target are not indexed
IndexAddedNowhere(nm, added, target) == nm

\* for n in new names: target_ch.append(<display-name>n); name_map[n] = target_ch
IndexAdded(nm, added, target) ==
    [n \in DOMAIN nm \cup {added[i] : i \in DOMAIN added} |->
        IF \E i \in DOMAIN added : added[i] = n THEN target ELSE nm[n]]

\* a channel without names is passed over
SkipNamelessOver(ids, lists) ==
    /\ pc = "channels"
    /\ RoomForChannel
    /\ \E old_id \in ids, dn \in lists :
        LET ch == Channel(idx, Len(files[idx + 1].channel) + 1, old_id, dn) IN
        /\ get_all_names(ch) = {}
        /\ files' = ReadChannel(ch, "skipped", None)
    /\ UNCHANGED <<group, pc, base_tree, base_root, name_map, id_map, max_id,
                   programmes_map, written>>

\* a channel one of whose names is in name_map: its missing names are added to
\* the target, its old id maps to the target's id
MergeDuplicateOver(ids, lists) ==
    /\ pc = "channels"
    /\ RoomForChannel
    /\ \E old_id \in ids, dn \in lists :
        LET ch == Channel(idx, Len(files[idx + 1].channel) + 1, old_id, dn)
            ch_names == get_all_names(ch)
        IN
        /\ ch_names # {}
        /\ \E ord \in Orders(ch_names) :
            /\ Matches(name_map, ord) # {}
            /\ LET target == FirstMatch(name_map, ord)
                   added == NewNames(ord, get_all_names(base_root[target]))
                   new_id == base_root[target].id
               IN
               /\ base_root' = [base_root EXCEPT ![target].dn = @ \o added]
               /\ name_map' = IndexAdded(name_map, added, target)
               /\ id_map' = Put(id_map, old_id, new_id)
               /\ files' = ReadChannel(ch, "duplicate", new_id)
    /\ UNCHANGED <<group, pc, base_tree, max_id, programmes_map, written>>

\* a channel none of whose names is in name_map: it gets the next id and is
\* appended to the base root
MergeNewOver(ids, lists) ==
    /\ pc = "channels"
    /\ base_tree # None
    /\ RoomForChannel
    /\ \E old_id \in ids, dn \in lists :
        LET ch == Channel(idx, Len(files[idx + 1].channel) + 1, old_id, dn)
            ch_names == get_all_names(ch)
            new_id == Str(max_id + 1)
        IN
        /\ ch_names # {}
        /\ \A n \in ch_names : n \notin DOMAIN name_map
        /\ max_id' = max_id + 1
        /\ base_root' = AddChannel(base_root, [ch EXCEPT !.id = new_id])
        /\ name_map' = IndexNames(name_map, ch_names, Len(base_root) + 1)
        /\ programmes_map' = Put(programmes_map, new_id, <<>>)
        /\ id_map' = Put(id_map, old_id, new_id)
        /\ files' = ReadChannel(ch, "new", new_id)
    /\ UNCHANGED <<group, pc, base_tree, written>>

\* the same without a base: base_root is None and base_root.append raises
\* AttributeError, which nothing catches
MergeNewNoBaseOver(ids, lists) ==
    /\ pc = "channels"
    /\ base_tree = None
    /\ RoomForChannel
    /\ \E old_id \in ids, dn \in lists :
        LET ch == Channel(idx, Len(files[idx + 1].channel) + 1, old_id, dn)
            ch_names == get_all_names(ch)
        IN
        /\ ch_names # {}
        /\ \A n \in ch_names : n \notin DOMAIN name_map
        /\ files' = ReadChannel(ch, "raised", None)
    /\ pc' = "raised"
    /\ UNCHANGED <<group, base_tree, base_root, name_map, id_map, max_id,
                   programmes_map, written>>

-----------------------------------------------------------------------------
(* Programmes of a later input *)

\* the programme is put first in the list instead of last
AttachFirst(pm, new_ch_id, p) ==
    Put(pm, new_ch_id,
        <<[p EXCEPT !.channel = new_ch_id]>> \o ListOf(pm, new_ch_id))

\* the programme keeps its old channel attribute
AttachUnrewritten(pm, new_ch_id, p) ==
    Put(pm, new_ch_id, Append(ListOf(pm, new_ch_id), p))

\* p.set("channel", new_ch_id); programmes_map[new_ch_id].append(p), the list
\* created if it is missing
Attach(pm, new_ch_id, p) ==
    Put(pm, new_ch_id,
        Append(ListOf(pm, new_ch_id), [p EXCEPT !.channel = new_ch_id]))

\* one round of the loop over root.findall("programme"): the programme is
\* dropped if id_map has no (truthy) new id for its channel, else it is
\* rewritten to the new id and filed under it
MergeProgramme ==
    /\ pc \in {"channels", "programmes"}
    /\ RoomForProgramme
    /\ \E old_ch_id \in IdAttrs :
        LET p == Programme(idx, Len(files[idx + 1].programme) + 1, old_ch_id)
            new_ch_id == Get(id_map, old_ch_id)
        IN
        /\ files' = ReadProgramme(p)
        /\ programmes_map' =
              IF ~Truthy(new_ch_id)
              THEN programmes_map
              ELSE Attach(programmes_map, new_ch_id, p)
    /\ pc' = "programmes"
    /\ UNCHANGED <<group, base_tree, base_root, name_map, id_map, max_id, written>>

-----------------------------------------------------------------------------
(* Reassembly and output *)

\* list.insert(pos, e), pos counted from 0
InsertAt(seq, pos, e) ==
    SubSeq(seq, 1, pos) \o <<e>> \o SubSeq(seq, pos + 1, Len(seq))

\* list(root).index(ch), counted from 0
IndexOf(seq, ch) ==
    (CHOOSE i \in DOMAIN seq :
        /\ seq[i].tag = "channel" /\ seq[i].doc = ch.doc /\ seq[i].k = ch.k
        /\ \A j \in 1..(i - 1) :
              ~(seq[j].tag = "channel" /\ seq[j].doc = ch.doc /\ seq[j].k = ch.k)) - 1

\* for p in ps: root.insert(insert_pos, p); insert_pos += 1
RECURSIVE InsertAll(_, _, _)
InsertAll(root, insert_pos, ps) ==
    IF ps = <<>> THEN root
    ELSE InsertAll(InsertAt(root, insert_pos, Head(ps)), insert_pos + 1, Tail(ps))

\* the programmes are inserted at the channel's own position, before it
RECURSIVE InsertBackBefore(_, _, _)
InsertBackBefore(root, channels, pm) ==
    IF channels = <<>> THEN root
    ELSE LET ch == Head(channels)
             ps == ListOf(pm, ch.id)
         IN InsertBackBefore(InsertAll(root, IndexOf(root, ch), ps), Tail(channels), pm)

\* for ch in channels: insert programmes_map.get(cid, []) after ch
RECURSIVE InsertBack(_, _, _)
InsertBack(root, channels, pm) ==
    IF channels = <<>> THEN root
    ELSE LET ch == Head(channels)
             ps == ListOf(pm, ch.id)
         IN InsertBack(InsertAll(root, IndexOf(root, ch) + 1, ps), Tail(channels), pm)

\* the programmes are put back after their channels and the tree is written
Finish ==
    /\ InLoop
    /\ next_idx = MERGES[group]
    /\ base_tree # None
    /\ base_root' = InsertBack(base_root, base_root, programmes_map)
    /\ written' = written \cup {group}
    /\ pc' = "returned"
    /\ UNCHANGED <<group, files, base_tree, name_map, id_map, max_id,
                   programmes_map>>

\* without a base, base_root is None and base_root.findall raises
\* AttributeError, which nothing catches
FinishNoBase ==
    /\ InLoop
    /\ next_idx = MERGES[group]
    /\ base_tree = None
    /\ pc' = "raised"
    /\ UNCHANGED <<group, files, base_tree, base_root, name_map, id_map, max_id,
                   programmes_map, written>>

\* main: merge_files has returned, the next group is merged with fresh locals
NextGroup ==
    /\ pc = "returned"
    /\ group < Len(MERGES)
    /\ group' = group + 1
    /\ pc' = "start"
    /\ files' = <<>>
    /\ base_tree' = None
    /\ base_root' = <<>>
    /\ name_map' = EmptyDict
    /\ id_map' = EmptyDict
    /\ max_id' = 0
    /\ programmes_map' = EmptyDict
    /\ UNCHANGED written

-----------------------------------------------------------------------------
(* The program on inputs whose channels carry at most one display-name *)

BaseChannel == BaseChannelOver(IdAttrs, ShortLists)
SkipNameless == SkipNamelessOver(IdAttrs, ShortLists)
MergeDuplicate == MergeDuplicateOver(IdAttrs, ShortLists)
MergeNew == MergeNewOver(IdAttrs, ShortLists)
MergeNewNoBase == MergeNewNoBaseOver(IdAttrs, ShortLists)

Next ==
    \/ SkipInput
    \/ LoadBase
    \/ LoadOther
    \/ BaseChannel
    \/ BaseProgramme
    \/ SkipNameless
    \/ MergeDuplicate
    \/ MergeNew
    \/ MergeNewNoBase
    \/ MergeProgramme
    \/ Finish
    \/ FinishNoBase
    \/ NextGroup

Spec == Init /\ [][Next]_vars

-----------------------------------------------------------------------------
(* The program on inputs without programmes, whose channels carry up to    *)
(* MaxNames display-names                                                  *)

BaseChannelN == BaseChannelOver(BaseIds, NameLists)
SkipNamelessN == SkipNamelessOver(OldIds, NameLists)
MergeDuplicateN == MergeDuplicateOver(OldIds, NameLists)
MergeNewN == MergeNewOver(OldIds, NameLists)
MergeNewNoBaseN == MergeNewNoBaseOver(OldIds, NameLists)

NextNames ==
    \/ SkipInput
    \/ LoadBase
    \/ LoadOther
    \/ BaseChannelN
    \/ SkipNamelessN
    \/ MergeDuplicateN
    \/ MergeNewN
    \/ MergeNewNoBaseN
    \/ Finish
    \/ FinishNoBase
    \/ NextGroup

SpecNames == Init /\ [][NextNames]_vars
-----------------------------------------------------------------------------
(* The output and the inputs it came from *)

\* merge_files has returned: base_root holds the children of the written root
Done == pc = "returned"

IsChannel(e) == e.tag = "channel"
IsProgramme(e) == e.tag = "programme"

\* positions of the programme elements that follow position i with no channel
\* element in between
Run(i) ==
    {j \in DOMAIN base_root :
        j > i /\ \A k \in (i + 1)..j : IsProgramme(base_root[k])}

\* positions in the output of the n-th programme of input d
Occurrences(d, n) ==
    {j \in DOMAIN base_root :
        IsProgramme(base_root[j]) /\ base_root[j].doc = d /\ base_root[j].k = n}

\* positions of the channels of input d that a programme with this channel
\* attribute refers to: the kept, merged or added channels with that id
Referred(d, channel) ==
    {i \in DOMAIN ChannelsRead(d) :
        /\ ChannelsRead(d)[i].id = channel
        /\ ChannelsRead(d)[i].fate \in {"duplicate", "new"}
           \/ (ChannelsRead(d)[i].fate = "base" /\ Truthy(channel))}

SetMax(S) == CHOOSE x \in S : \A y \in S : y <= x

\* the id, in the output, of the channel that a programme of input d refers to
\* (the last of them if several channels of d carry the id)
MergedId(d, channel) ==
    ChannelsRead(d)[SetMax(Referred(d, channel))].new_id

Inputs == 0..(Len(files) - 1)

-----------------------------------------------------------------------------
(* C1: ordering contract *)

\* C1 as stated: in the output, for every channel element, all programme
\* elements whose channel attribute equals that channel's id come
\* contiguously right after that channel element, before the next channel.
C1_Original ==
    Done =>
        \A i, j \in DOMAIN base_root :
            (/\ IsChannel(base_root[i])
             /\ IsProgramme(base_root[j])
             /\ base_root[j].channel = base_root[i].id)
            => j \in Run(i)

\* C1 amended: in the output, every programme element lies in the run of
\* programme elements right after a channel element that carries its channel
\* attribute as id, and the run after a channel element holds every programme
\* of the output with that channel's id; two channel elements with the same id
\* are each followed by all of them.
C1_Ordering ==
    Done =>
        /\ \A j \in DOMAIN base_root :
              IsProgramme(base_root[j]) =>
                  \E i \in DOMAIN base_root :
                      /\ IsChannel(base_root[i])
                      /\ j \in Run(i)
                      /\ base_root[i].id = base_root[j].channel
        /\ \A i, j \in DOMAIN base_root :
              (/\ IsChannel(base_root[i])
               /\ IsProgramme(base_root[j])
               /\ base_root[j].channel = base_root[i].id)
              => \E k \in Run(i) : base_root[k] = base_root[j]

\* two channels with different ids, each followed by a programme of its own
C1_Witness ==
    /\ Done
    /\ \E i, j \in DOMAIN base_root :
        /\ i < j
        /\ IsChannel(base_root[i]) /\ IsChannel(base_root[j])
        /\ base_root[i].id # base_root[j].id
        /\ Run(i) # {} /\ Run(j) # {}

-----------------------------------------------------------------------------
(* C2: programme conservation *)

\* no two channel elements carry the same id
DistinctIds(root) ==
    \A i, j \in DOMAIN root :
        (i < j /\ IsChannel(root[i]) /\ IsChannel(root[j])) => root[i].id # root[j].id

\* C2 as stated, for outputs whose channel ids are pairwise distinct: every
\* programme of a loaded input whose channel attribute refers to a channel of
\* that input occurs exactly once in the output, with the id of a merged
\* channel of that input, and in the order of its input with respect to the
\* other such programmes of the same input.
C2_Original ==
    (Done /\ DistinctIds(base_root)) =>
        \A d \in Inputs : \A n, m \in DOMAIN ProgrammesRead(d) :
            LET p == ProgrammesRead(d)[n]
                q == ProgrammesRead(d)[m]
            IN
            /\ Referred(d, p.channel) # {} =>
                 /\ Cardinality(Occurrences(d, n)) = 1
                 /\ \A j \in Occurrences(d, n) :
                       \E i \in Referred(d, p.channel) :
                           base_root[j].channel = ChannelsRead(d)[i].new_id
            /\ (n < m /\ Referred(d, p.channel) # {} /\ Referred(d, q.channel) # {}) =>
                 \A j \in Occurrences(d, n), k \in Occurrences(d, m) : j < k

\* C2 amended: every such programme occurs once in the run after each channel
\* element that carries the id its channel goes by in the output, and nowhere
\* else, carries that id, and keeps its order with respect to the other
\* programmes of the same input in the same run.
C2_Conservation ==
    Done =>
        \A d \in Inputs : \A n, m \in DOMAIN ProgrammesRead(d) :
            LET p == ProgrammesRead(d)[n]
                q == ProgrammesRead(d)[m]
            IN
            Referred(d, p.channel) # {} =>
                LET new_id == MergedId(d, p.channel) IN
                /\ \E i \in DOMAIN base_root :
                      IsChannel(base_root[i]) /\ base_root[i].id = new_id
                /\ \A j \in Occurrences(d, n) : base_root[j].channel = new_id
                /\ \A i \in DOMAIN base_root :
                      IsChannel(base_root[i]) =>
                          Cardinality(Occurrences(d, n) \cap Run(i))
                            = (IF base_root[i].id = new_id THEN 1 ELSE 0)
                /\ (/\ n < m
                    /\ Referred(d, q.channel) # {}
                    /\ MergedId(d, q.channel) = new_id) =>
                      \A i \in DOMAIN base_root :
                          \A j \in Occurrences(d, n) \cap Run(i),
                             k \in Occurrences(d, m) \cap Run(i) : j < k

\* two programmes of one later input in the output, the first of them after
\* the second because its channel comes later
C2_Witness ==
    /\ Done
    /\ \E d \in Inputs \ {0} : \E n, m \in DOMAIN ProgrammesRead(d) :
        /\ n < m
        /\ Referred(d, ProgrammesRead(d)[n].channel) # {}
        /\ Referred(d, ProgrammesRead(d)[m].channel) # {}
        /\ \E j \in Occurrences(d, n), k \in Occurrences(d, m) : k < j
-----------------------------------------------------------------------------
(* C3: one channel per display-name *)

\* no display-name is carried by two channel elements
NoSharedName(root) ==
    \A i, j \in DOMAIN root :
        (i < j /\ IsChannel(root[i]) /\ IsChannel(root[j]))
        => get_all_names(root[i]) \cap get_all_names(root[j]) = {}

\* C3 as stated, for accumulators all of whose channels have an id: merging
\* a channel of a later input never leads from an accumulator in which no two
\* channel elements carry the same display-name to one in which two do.
C3_Original ==
    [][(/\ pc = "channels"
        /\ \A i \in DOMAIN base_root : Truthy(base_root[i].id)
        /\ NoSharedName(base_root))
       => NoSharedName(base_root')]_vars

-----------------------------------------------------------------------------
(* C4: id monotonicity *)

\* the greatest numeric id of the base channels read so far, 0 without any
MaxBase ==
    LET S == {IntOf(ChannelsRead(0)[i].id) :
                 i \in {j \in DOMAIN ChannelsRead(0) :
                           /\ Truthy(ChannelsRead(0)[j].id)
                           /\ ParsesAsInt(ChannelsRead(0)[j].id)}}
    IN IF S = {} THEN 0 ELSE SetMax(S)

\* the channel elements of the accumulator that came from later inputs
NewChannels == SelectSeq(base_root, LAMBDA e : IsChannel(e) /\ e.doc > 0)

\* C4: the j-th channel introduced gets the id MaxBase + j, which is greater
\* than every numeric id of the channel elements before it, whatever
\* non-numeric ids the base has; the counter stands at MaxBase plus the number
\* of channels introduced, so merging a duplicate does not advance it.
C4_IdMonotonic ==
    Loaded(0) =>
        /\ \A j \in DOMAIN NewChannels : NewChannels[j].id = Str(MaxBase + j)
        /\ max_id = MaxBase + Len(NewChannels)
        /\ \A i, j \in DOMAIN base_root :
              (/\ i < j
               /\ IsChannel(base_root[i]) /\ IsChannel(base_root[j])
               /\ base_root[j].doc > 0
               /\ ParsesAsInt(base_root[i].id))
              => IntOf(base_root[i].id) < IntOf(base_root[j].id)

\* a base with a non-numeric id and two numeric ids, the greater one first,
\* then a duplicate merged and a channel introduced
C4_Witness ==
    /\ Len(ChannelsRead(0)) >= 2
    /\ ChannelsRead(0)[1].id = "2"
    /\ ChannelsRead(0)[2].id = "1"
    /\ \E i \in DOMAIN ChannelsRead(1) : ChannelsRead(1)[i].fate = "new"

-----------------------------------------------------------------------------
(* C5: missing base *)

\* C5 as stated: when the first input of a group is missing or unparseable,
\* merge_files writes no output for the group and returns normally (no
\* exception leaves it), so that main goes on to the next group.
C5_Original ==
    (Len(files) >= 1 /\ ~files[1].parsed) =>
        (group \notin written /\ pc # "raised")

-----------------------------------------------------------------------------
(* C6: old ids are per document *)

\* C6 as stated, for programmes that have a channel attribute: a programme of
\* a later input is kept only if its channel attribute is the old id of a
\* channel merged from that same input.
C6_Original ==
    \A id \in DOMAIN programmes_map : \A i \in DOMAIN programmes_map[id] :
        LET p == programmes_map[id][i] IN
        (p.doc > 0 /\ Truthy(ProgrammesRead(p.doc)[p.k].channel)) =>
            Referred(p.doc, ProgrammesRead(p.doc)[p.k].channel) # {}

-----------------------------------------------------------------------------
(* C7: skipping a later input *)

\* C7: with the base loaded, the step that skips a missing or unparseable later
\* input leaves the accumulator, the name index, the id map, the counter and
\* the programme lists as they were, so that the merge goes on as if the input
\* were not in the list (the index of an input matters only in being 0 or
\* not); and the output is written.
C7_SkipLeavesMerge ==
    /\ [][(Loaded(0) /\ files' = Append(files, NoDoc))
          => UNCHANGED <<base_tree, base_root, name_map, id_map, max_id,
                         programmes_map>>]_vars
    /\ [](Done => group \in written)

\* a later input was skipped after an input that mapped an old id, and the
\* output was written
C7_Witness ==
    /\ Done
    /\ Loaded(0) /\ Loaded(1) /\ ~Loaded(2)
    /\ DOMAIN id_map # {}
    /\ group \in written

-----------------------------------------------------------------------------
(* C8: duplicate remapping *)

\* the channels of the later inputs that were merged into an existing channel
Duplicates ==
    {<<d, i>> \in Inputs \X (1..MaxCh + 1) :
        i \in DOMAIN ChannelsRead(d) /\ ChannelsRead(d)[i].fate = "duplicate"}

\* the channel elements of the accumulator
Channels == SelectSeq(base_root, IsChannel)

\* a duplicate adds no channel element and leaves the counter alone: the
\* accumulator holds the base channels and the introduced ones, and the
\* counter stands at MaxBase plus the number introduced; its new id is the id
\* of a channel element read before it that carries its names
DuplicateMergedIntoTarget ==
    /\ Len(Channels) =
          Len(ChannelsRead(0))
          + Cardinality({<<d, i>> \in Inputs \X (1..MaxCh + 1) :
                            i \in DOMAIN ChannelsRead(d)
                            /\ ChannelsRead(d)[i].fate = "new"})
    /\ Loaded(0) => max_id = MaxBase + Len(NewChannels)
    /\ \A c \in Duplicates :
          LET ch == ChannelsRead(c[1])[c[2]] IN
          \E t \in DOMAIN Channels :
              /\ Channels[t].id = ch.new_id
              /\ Channels[t].doc < ch.doc
                 \/ (Channels[t].doc = ch.doc /\ Channels[t].k < ch.k)
              /\ get_all_names(ch) \subseteq get_all_names(Channels[t])

\* C8 as stated, for duplicates that have an id: a channel of a later input
\* that shares a display-name with an indexed channel adds no channel element
\* and leaves the counter alone, gets the target's id, and every programme of
\* its input with its old id as channel attribute is in the output with that
\* attribute rewritten to the target's id.
C8_Original ==
    /\ DuplicateMergedIntoTarget
    /\ Done =>
        \A c \in Duplicates : \A n \in DOMAIN ProgrammesRead(c[1]) :
            (/\ Truthy(ChannelsRead(c[1])[c[2]].id)
             /\ ProgrammesRead(c[1])[n].channel = ChannelsRead(c[1])[c[2]].id) =>
                /\ Occurrences(c[1], n) # {}
                /\ \A j \in Occurrences(c[1], n) :
                      base_root[j].channel = ChannelsRead(c[1])[c[2]].new_id

\* C8 amended: the same, the programmes being those whose channel attribute
\* is the old id of the duplicate and of no later channel of the same input
\* (the last channel with an old id decides where its programmes go).
C8_DuplicateRemap ==
    /\ DuplicateMergedIntoTarget
    /\ Done =>
        \A c \in Duplicates : \A n \in DOMAIN ProgrammesRead(c[1]) :
            (/\ ProgrammesRead(c[1])[n].channel = ChannelsRead(c[1])[c[2]].id
             /\ c[2] = SetMax(Referred(c[1], ChannelsRead(c[1])[c[2]].id))) =>
                /\ Occurrences(c[1], n) # {}
                /\ \A j \in Occurrences(c[1], n) :
                      base_root[j].channel = ChannelsRead(c[1])[c[2]].new_id

\* in the output, a programme whose channel was merged into a base channel
\* with another id
C8_Witness ==
    /\ Done
    /\ \E c \in Duplicates : \E n \in DOMAIN ProgrammesRead(c[1]) :
        /\ ProgrammesRead(c[1])[n].channel = ChannelsRead(c[1])[c[2]].id
        /\ ChannelsRead(c[1])[c[2]].id # ChannelsRead(c[1])[c[2]].new_id
        /\ \E j \in Occurrences(c[1], n) :
              base_root[j].channel = ChannelsRead(c[1])[c[2]].new_id

-----------------------------------------------------------------------------
(* C9: channel order *)

\* the channels of input d that were kept or introduced
RECURSIVE Kept(_)
Kept(d) ==
    IF d < 0 THEN <<>>
    ELSE Kept(d - 1) \o SelectSeq(ChannelsRead(d), LAMBDA c : c.fate \in {"base", "new"})

\* C9: the channel elements of the output are the channels of the base in
\* their order, each with its id, followed by the introduced channels in the
\* order of their inputs and of their places in them.
C9_ChannelOrder ==
    Done =>
        LET expected == Kept(Len(files) - 1) IN
        /\ Len(Channels) = Len(expected)
        /\ \A i \in DOMAIN Channels :
              /\ Channels[i].doc = expected[i].doc
              /\ Channels[i].k = expected[i].k
              /\ Channels[i].id = expected[i].new_id

\* an output with a base channel followed by its programme, then the channel
\* introduced by the second input, then the one introduced by the third
C9_Witness ==
    /\ Done
    /\ Len(ChannelsRead(0)) = 1
    /\ Run(1) # {}
    /\ \E i \in DOMAIN ChannelsRead(1) : ChannelsRead(1)[i].fate = "new"
    /\ \E i \in DOMAIN ChannelsRead(2) : ChannelsRead(2)[i].fate = "new"

-----------------------------------------------------------------------------
(* C10: name union *)

\* how many display-name children of the channel give the name n
Count(ch, n) ==
    Cardinality({i \in DOMAIN ch.dn : Truthy(ch.dn[i]) /\ Strip(ch.dn[i]) = n})

\* C10: the step that merges a duplicate changes one channel element, the
\* target, which carried one of the duplicate's names: afterwards its names
\* are its former names and the duplicate's, each former name as often as
\* before, each added name once and indexed to the target.
C10_NameUnion ==
    [][(/\ pc = "channels"
        /\ Len(files'[Len(files)].channel) > Len(files[Len(files)].channel)
        /\ files'[Len(files)].channel[Len(files'[Len(files)].channel)].fate = "duplicate")
       =>
       LET ch == files'[Len(files)].channel[Len(files'[Len(files)].channel)] IN
       /\ Len(base_root') = Len(base_root)
       /\ \E t \in DOMAIN base_root :
           LET before == get_all_names(base_root[t]) IN
           /\ \A i \in DOMAIN base_root : i # t => base_root'[i] = base_root[i]
           /\ base_root'[t].id = ch.new_id
           /\ before \cap get_all_names(ch) # {}
           /\ get_all_names(base_root'[t]) = before \cup get_all_names(ch)
           /\ \A n \in before : Count(base_root'[t], n) = Count(base_root[t], n)
           /\ \A n \in get_all_names(ch) \ before :
                 /\ Count(base_root'[t], n) = 1
                 /\ n \in DOMAIN name_map'
                 /\ name_map'[n] = t]_vars

\* a base channel that carried a name twice and has gained another name from
\* a duplicate
C10_Witness ==
    \E i \in DOMAIN base_root :
        /\ IsChannel(base_root[i])
        /\ base_root[i].doc = 0
        /\ Len(base_root[i].dn) = 3
        /\ base_root[i].dn[1] = base_root[i].dn[2]

-----------------------------------------------------------------------------
(* Steps that read one channel element *)

\* the step reads a channel element of the input under way
ChannelStep ==
    /\ Len(files) > 0
    /\ Len(files') = Len(files)
    /\ Len(files'[Len(files)].channel) = Len(files[Len(files)].channel) + 1

\* the channel element the step reads, with what became of it
ChannelRead == files'[Len(files)].channel[Len(files'[Len(files)].channel)]

-----------------------------------------------------------------------------
(* C11: channels of a later input without an id *)

\* C11 as stated: a channel of a later input whose id attribute is empty or
\* missing is skipped: the step that reads it adds no channel element and no
\* display-name to the accumulator, changes no entry of the name index, does
\* not advance the counter and records no mapping of its old id.
C11_Original ==
    [][(ChannelStep /\ idx > 0 /\ ~Truthy(ChannelRead.id))
       => UNCHANGED <<base_root, name_map, id_map, max_id>>]_vars

-----------------------------------------------------------------------------
(* C12: programme accumulation order *)

\* p was encountered before q: in an earlier input, or earlier in the same one
Before(p, q) == p.doc < q.doc \/ (p.doc = q.doc /\ p.k < q.k)

\* C12: in the output, the programmes that follow a channel element carry its
\* id and stand in the order in which they were encountered: those of the base
\* first, then those of each later input in the order of the inputs, and
\* those of one input in the order they have in it.
C12_AccumulationOrder ==
    Done =>
        \A i \in DOMAIN base_root :
            IsChannel(base_root[i]) =>
                /\ \A j \in Run(i) : base_root[j].channel = base_root[i].id
                /\ \A j, k \in Run(i) :
                      j < k => Before(base_root[j], base_root[k])

\* a channel followed by a programme of the base and then by a programme of a
\* later input
C12_Witness ==
    /\ Done
    /\ \E i \in DOMAIN base_root :
        /\ IsChannel(base_root[i])
        /\ \E j, k \in Run(i) :
              j < k /\ base_root[j].doc = 0 /\ base_root[k].doc > 0

-----------------------------------------------------------------------------
(* C13: unique channel ids *)

\* the base channels that have an id have pairwise distinct ids
BaseIdsDistinct ==
    \A i, j \in DOMAIN ChannelsRead(0) :
        (i < j /\ Truthy(ChannelsRead(0)[i].id) /\ Truthy(ChannelsRead(0)[j].id))
        => ChannelsRead(0)[i].id # ChannelsRead(0)[j].id

\* C13: if the ids of the base channels are pairwise distinct, then no two
\* channel elements of the accumulator (hence of the output) that have an id
\* have the same id, and the id given to an introduced channel is the id
\* string of no base channel, numeric or not.
C13_UniqueIds ==
    BaseIdsDistinct =>
        /\ \A i, j \in DOMAIN base_root :
              (/\ i < j
               /\ IsChannel(base_root[i]) /\ IsChannel(base_root[j])
               /\ Truthy(base_root[i].id) /\ Truthy(base_root[j].id))
              => base_root[i].id # base_root[j].id
        /\ \A j \in DOMAIN NewChannels, i \in DOMAIN ChannelsRead(0) :
              NewChannels[j].id # ChannelsRead(0)[i].id

\* a written output with a numeric and a non-numeric base id and an introduced
\* channel
C13_Witness ==
    /\ Done
    /\ \E i, j \in DOMAIN ChannelsRead(0) :
          ChannelsRead(0)[i].id = "1" /\ ChannelsRead(0)[j].id = "x"
    /\ BaseIdsDistinct
    /\ Len(NewChannels) > 0

-----------------------------------------------------------------------------
(* C14: which base channel a shared name is indexed to *)

\* the base channels with an id, by position, that carry the name n
Carriers(n) ==
    {i \in DOMAIN ChannelsRead(0) :
        Truthy(ChannelsRead(0)[i].id) /\ n \in get_all_names(ChannelsRead(0)[i])}

\* C14 as stated, for bases whose ids are pairwise distinct: while the base is
\* ingested, the name index maps every name to the first base channel that
\* carries it (later base channels carrying the name do not overwrite the
\* entry), so that a channel matching on that name is merged into the first
\* of them.
C14_Original ==
    (pc = "base_channels" /\ BaseIdsDistinct) =>
        \A n \in DOMAIN name_map :
            \A i \in Carriers(n) : name_map[n] <= i

-----------------------------------------------------------------------------
(* C15: completeness of the name index *)

\* the channels read so far that were kept, merged or introduced, as <<input,
\* position>>
Processed ==
    {c \in Inputs \X (1..MaxCh + 1) :
        /\ c[2] \in DOMAIN ChannelsRead(c[1])
        /\ ChannelsRead(c[1])[c[2]].fate \in {"base", "duplicate", "new"}}

\* every key of the name index resolves to one channel element of the
\* accumulator, which carries the name
IndexResolves ==
    \A n \in DOMAIN name_map :
        /\ name_map[n] \in DOMAIN base_root
        /\ IsChannel(base_root[name_map[n]])
        /\ n \in get_all_names(base_root[name_map[n]])

-----------------------------------------------------------------------------
(* C16: channels without a name *)

\* the display-names of a channel that are not empty once stripped
NonEmptyNames(ch) == get_all_names(ch) \ {""}

\* C16 as stated, for the channels of later inputs: a channel with no
\* non-empty display-name is not merged and not given an id: the step that
\* reads it leaves the accumulator, the name index, the counter and the map
\* of old ids as they were.
C16_Original ==
    [][(ChannelStep /\ idx > 0 /\ NonEmptyNames(ChannelRead) = {})
       => UNCHANGED <<base_root, name_map, id_map, max_id>>]_vars

-----------------------------------------------------------------------------
(* C17: no dangling programme *)

\* the ids of the channel elements of the accumulator
ChannelIds == {base_root[i].id : i \in {j \in DOMAIN base_root : IsChannel(base_root[j])}}

\* C17: every new id recorded in the map of old ids has its list in the
\* programme lists, and every list belongs to a channel element of the
\* accumulator (the list never has to be created for a programme); in the
\* output every programme element carries the id of a channel element, and a
\* programme of the base whose channel attribute is not the id of a base
\* channel does not occur.
C17_NoDangling ==
    /\ \A old_id \in DOMAIN id_map :
          Truthy(id_map[old_id]) /\ id_map[old_id] \in DOMAIN programmes_map
    /\ DOMAIN programmes_map \subseteq ChannelIds
    /\ Done =>
          /\ \A j \in DOMAIN base_root :
                IsProgramme(base_root[j]) => base_root[j].channel \in ChannelIds
          /\ \A n \in DOMAIN ProgrammesRead(0) :
                (\A i \in DOMAIN ChannelsRead(0) :
                    ~Truthy(ChannelsRead(0)[i].id)
                    \/ ChannelsRead(0)[i].id # ProgrammesRead(0)[n].channel)
                => Occurrences(0, n) = {}

\* an output without a base programme that named an unknown channel, and with
\* a programme of a later input
C17_Witness ==
    /\ Done
    /\ \E n \in DOMAIN ProgrammesRead(0) :
          Truthy(ProgrammesRead(0)[n].channel) /\ Occurrences(0, n) = {}
    /\ \E d \in Inputs \ {0} : \E n \in DOMAIN ProgrammesRead(d) :
          Occurrences(d, n) # {}

-----------------------------------------------------------------------------
(* C18: the iteration order of the name set *)

\* the names of the channel that are keys of the name index
Hits(ch) == get_all_names(ch) \cap DOMAIN name_map

\* all of them resolve to the same channel element
Unambiguous(ch) == \A n, m \in Hits(ch) : name_map[n] = name_map[m]

\* the channel element they resolve to
Owner(ch) == name_map[CHOOSE n \in Hits(ch) : TRUE]

\* what merging the channel into the element at position t has to give,
\* whatever the order: the ids and the places of the channel elements stay,
\* the target's names become the union, its display-names are the former ones
\* followed by one for each missing name, the missing names are indexed to it
\* and the old id maps to its id
MergedInto(ch, t) ==
    LET missing == get_all_names(ch) \ get_all_names(base_root[t]) IN
    /\ ch.fate = "duplicate"
    /\ ch.new_id = base_root[t].id
    /\ Len(base_root') = Len(base_root)
    /\ \A i \in DOMAIN base_root : i # t => base_root'[i] = base_root[i]
    /\ base_root'[t].id = base_root[t].id
    /\ get_all_names(base_root'[t]) = get_all_names(base_root[t]) \cup get_all_names(ch)
    /\ Len(base_root'[t].dn) = Len(base_root[t].dn) + Cardinality(missing)
    /\ SubSeq(base_root'[t].dn, 1, Len(base_root[t].dn)) = base_root[t].dn
    /\ name_map' = [n \in DOMAIN name_map \cup missing |->
                       IF n \in missing THEN t ELSE name_map[n]]
    /\ id_map' = [o \in DOMAIN id_map \cup {ch.id} |->
                     IF o = ch.id THEN base_root[t].id ELSE id_map[o]]
    /\ max_id' = max_id
    /\ programmes_map' = programmes_map

\* what introducing the channel has to give, whatever the order
Introduced(ch) ==
    /\ ch.fate = "new"
    /\ ch.new_id = Str(max_id + 1)
    /\ max_id' = max_id + 1
    /\ Len(base_root') = Len(base_root) + 1
    /\ SubSeq(base_root', 1, Len(base_root)) = base_root
    /\ base_root'[Len(base_root')].id = Str(max_id + 1)
    /\ base_root'[Len(base_root')].dn = ch.dn
    /\ name_map' = [n \in DOMAIN name_map \cup get_all_names(ch) |->
                       IF n \in get_all_names(ch) THEN Len(base_root) + 1
                       ELSE name_map[n]]
    /\ id_map' = [o \in DOMAIN id_map \cup {ch.id} |->
                     IF o = ch.id THEN Str(max_id + 1) ELSE id_map[o]]
    /\ programmes_map' = [c \in DOMAIN programmes_map \cup {Str(max_id + 1)} |->
                             IF c = Str(max_id + 1) THEN <<>> ELSE programmes_map[c]]

\* C18: with the base loaded, when all the indexed names of a named channel
\* of a later input resolve to the same channel element, the step that reads
\* it gives, for every iteration order of its name set, the same channel
\* elements with the same ids, the same name index, the same map of old ids,
\* the same counter and the same programme lists (hence the same programmes
\* per channel in the output); only the order of the display-names appended
\* to the target depends on the iteration order.
C18_Determinism ==
    [][(/\ ChannelStep /\ idx > 0 /\ base_tree # None
        /\ get_all_names(ChannelRead) # {}
        /\ Unambiguous(ChannelRead))
       => IF Hits(ChannelRead) = {}
          THEN Introduced(ChannelRead)
          ELSE MergedInto(ChannelRead, Owner(ChannelRead))]_vars

\* a channel with two names has been merged into the one channel element that
\* carried one of them and has given it the other
C18_Witness ==
    /\ NoSharedName(base_root)
    /\ \E c \in Duplicates :
          Cardinality(get_all_names(ChannelsRead(c[1])[c[2]])) = 2
    /\ \E i \in DOMAIN ChannelsRead(0) :
          /\ Truthy(ChannelsRead(0)[i].id)
          /\ Len(base_root[i].dn) > Len(ChannelsRead(0)[i].dn)

-----------------------------------------------------------------------------
(* C19: the empty string as a name *)

\* C19 as stated: a display-name whose text is empty or only whitespace gives
\* no name, so the empty string is never a key of the name index (and no two
\* channels are merged for sharing it).
C19_Original == "" \notin DOMAIN name_map

====
